---------------------------- MODULE Spec2Model ----------------------------
(***************************************************************************)
(* State-machine model of the order service (internal/service,             *)
(* internal/repository): CreateOrder's fan-out/fan-in enrichment, the      *)
(* transactional write, the event publication, UpdateOrder and             *)
(* CancelOrder, over a relational store and an event bus.                  *)
(*                                                                         *)
(* Modelling notes.                                                        *)
(*  - Prices are float64 in the source; the model uses small naturals.     *)
(*  - The range loop variable of CreateOrder's dispatch loop is taken per  *)
(*    iteration (Go >= 1.22 loop semantics): each worker reads the line    *)
(*    item of its own iteration.                                           *)
(*  - A panic in a worker goroutine ends the process: pc = "crashed" and   *)
(*    no action is enabled any more; the store and the bus keep what was   *)
(*    committed before.                                                    *)
(*  - In Spec and SpecCreate one request is in flight at a time (SpecRace  *)
(*    runs an UpdateOrder and a CancelOrder concurrently); the next        *)
(*    request starts once the previous call has returned and its workers   *)
(*    have finished.  A crash caused by a worker left over from an        *)
(*    earlier call freezes the process in some intermediate state of the   *)
(*    later call, and every intermediate state is a state of this model    *)
(*    already.                                                             *)
(*  - SpecStock, SpecMem and SpecShard check the stock gateway client,     *)
(*    the in-memory repository and the shard router on their own.          *)
(***************************************************************************)
EXTENDS Integers, Sequences, FiniteSets, TLC

\* ------------------------------------------------------------------ bounds

\* Longest sequence of line items of one order.
MaxItems == 2
\* Largest order identity the store hands out or an update may name.
MaxID == 1
\* Number of CreateOrder / UpdateOrder / CancelOrder calls in one behaviour.
MaxOps == 3

\* Largest stock level and largest requested quantity given to the stock
\* gateway client on its own.
MaxStock == 9
MaxQuantity == 4

\* Largest identity in the in-memory repository and number of calls made on
\* it in one behaviour.
MaxMemID == 4
MaxCalls == 4

\* Keys routed are -MaxKey..MaxKey; routers have 1..MaxShards partitions.
MaxKey == 10
MaxShards == 3

\* Input domains.
\* Stock 1 falls short of a quantity of 2 and equals a quantity of 1.
StockLevels == {1, 5}
\* The final price the pricing service quotes for a product.
FinalPriceOf(p) == IF p = 10 THEN 50 ELSE 30
\* Status and total price a caller puts in the body of a create request.
CreateHeaders == {<<"", 0>>, <<"Paid", 7>>}
UpdateStatuses == {"Paid", "updated"}
UpdateTotals == {9}

\* ------------------------------------------------------------- data model

\* entity.Pricing: the quote the pricing gateway returns.
Quote(p, f) == [ProductID |-> p, MarkUp |-> 0, Discount |-> 0, FinalPrice |-> f]
NilPricing == [ProductID |-> 0, MarkUp |-> 0, Discount |-> 0, FinalPrice |-> 0]

\* entity.OrderRequest: one line item; its pricing fields are zero before
\* enrichment.
OrderRequest(p, q) ==
    [ProductID |-> p, Quantity |-> q, MarkUp |-> 0, Discount |-> 0,
     FinalPrice |-> 0, OrderID |-> 0]

LineItems == {OrderRequest(10, 2), OrderRequest(20, 1)}

RECURSIVE SeqsUpTo(_, _)
SeqsUpTo(S, n) ==
    IF n = 0 THEN {<<>>}
    ELSE LET shorter == SeqsUpTo(S, n - 1)
         IN  shorter \cup {Append(s, x) : s \in {t \in shorter : Len(t) = n - 1}, x \in S}

ItemSeqs(n) == {s \in SeqsUpTo(LineItems, n) : Len(s) >= 1}

\* entity.Order as the handler binds it from the request body.
Order(id, status, total, items) ==
    [ID |-> id, Status |-> status, TotalPrice |-> total, ProductRequests |-> items]

NoOrder == Order(0, "", 0, <<>>)

\* A row of the orders table; exists = FALSE stands for "no row".
NoRow == [exists |-> FALSE, Status |-> "", TotalPrice |-> 0]
Row(o) == [exists |-> TRUE, Status |-> o.Status, TotalPrice |-> o.TotalPrice]

\* What a call returns: kind "ok" is (order, nil), every other kind is
\* (nil, error); id is the product or order identity the error names.
Result(kind, id) == [kind |-> kind, id |-> id]
NoResult == Result("none", 0)

\* ---------------------------------------------------------------- gateways

\* HTTP responses of the stock gateway.
StockResponses ==
    {[kind |-> k, stock |-> 0] : k \in {"transport", "status", "decode", "nofield"}}
    \cup {[kind |-> "ok", stock |-> s] : s \in StockLevels}

\* checkProductStock: (available, error non-nil).
checkProductStockNoBoundary(resp, quantity) ==
    IF resp.kind # "ok"
        THEN [Available |-> FALSE, Error |-> TRUE]
        ELSE [Available |-> resp.stock > quantity, Error |-> FALSE]

checkProductStock(resp, quantity) ==
    IF resp.kind = "transport" THEN [Available |-> FALSE, Error |-> TRUE]
    ELSE IF resp.kind = "status" THEN [Available |-> FALSE, Error |-> TRUE]
    ELSE IF resp.kind = "decode" THEN [Available |-> FALSE, Error |-> TRUE]
    ELSE IF resp.kind = "nofield" THEN [Available |-> FALSE, Error |-> TRUE]
    ELSE [Available |-> resp.stock >= quantity, Error |-> FALSE]

\* HTTP responses of the pricing gateway for product p.
PricingResponses(p) ==
    {[kind |-> k, quote |-> NilPricing] : k \in {"transport", "status", "decode"}}
    \cup {[kind |-> "ok", quote |-> Quote(p, FinalPriceOf(p))]}

\* getPricing: (pointer to the quote, error non-nil); isNil = TRUE is the nil
\* pointer returned with every error.
getPricing(resp) ==
    IF resp.kind = "transport" THEN [isNil |-> TRUE, pricing |-> NilPricing, Error |-> TRUE]
    ELSE IF resp.kind = "status" THEN [isNil |-> TRUE, pricing |-> NilPricing, Error |-> TRUE]
    ELSE IF resp.kind = "decode" THEN [isNil |-> TRUE, pricing |-> NilPricing, Error |-> TRUE]
    ELSE [isNil |-> FALSE, pricing |-> resp.quote, Error |-> FALSE]

\* ------------------------------------------------------------------- state

VARIABLES
    orders,             \* orders table: identity -> row
    lineItems,          \* product_requests table: sequence of rows
    nextID,             \* the orders table's auto-increment counter
    events,             \* messages written to the event bus, in order
    pc,                 \* position of the request in flight
    op,                 \* "none" | "create" | "update" | "cancel"
    order,              \* the *entity.Order the call works on
    result,             \* what the call returned
    spawned,            \* line items whose two workers have been launched
    availW,             \* per line item: the stock check its worker issued
    priceW,             \* per line item: the pricing lookup its worker issued
    availabilityCh,     \* buffered channel of AvailabilityChannel values
    pricingCh,          \* buffered channel of PricingChannel values
    availabilityResult, \* the value received from availabilityCh
    examined,           \* paired reads examined without failure
    totalPrice,         \* CreateOrder's local accumulator
    tx,                 \* uncommitted writes of the open transaction
    opsLeft,            \* calls still to be made in this behaviour
    pc2,                \* position of a second, concurrent CancelOrder request
    order2,             \* the *entity.Order the concurrent CancelOrder works on
    result2,            \* what the concurrent CancelOrder returned
    ordersMap,          \* the in-memory repository's package-level map of orders
    lastCall,           \* the last call made on the in-memory repository
    stockIn,            \* a stock gateway response and a requested quantity
    stockOut,           \* what checkProductStock returned for stockIn
    shardIn,            \* a ShardRouter's NumShards and a key
    shardOut            \* what GetShard returned for shardIn

db == <<orders, lineItems, nextID>>
req == <<pc, op, order, result>>
enrich == <<spawned, availW, priceW, availabilityCh, pricingCh,
            availabilityResult, examined, totalPrice>>
\* The state of the parts of the program a specification leaves aside.
extra == <<pc2, order2, result2, ordersMap, lastCall, stockIn, stockOut,
           shardIn, shardOut>>
vars == <<orders, lineItems, nextID, events, pc, op, order, result, spawned,
          availW, priceW, availabilityCh, pricingCh, availabilityResult,
          examined, totalPrice, tx, opsLeft, extra>>

N == Len(order.ProductRequests)

\* A worker's log entry: what it called the gateway with and what came back.
NoCall == [done |-> FALSE, sent |-> FALSE, ProductID |-> 0, Quantity |-> 0,
           Stock |-> 0, Available |-> FALSE, Error |-> FALSE, FinalPrice |-> 0]
NoAvailability == [ProductID |-> 0, Available |-> FALSE, Error |-> FALSE]
NoTx == [open |-> FALSE, header |-> NoRow, id |-> 0]
NoMemCall == [op |-> "none", id |-> 0, seq |-> 0]
NoInput == [set |-> FALSE]

\* No second request is in flight.
RaceIdle ==
    /\ pc2 = "idle"
    /\ order2 = NoOrder
    /\ result2 = NoResult

\* An order held by the in-memory repository.
MemOrder(id, status) == [ID |-> id, Status |-> status]

\* The in-memory repository's map as the package initialises it: orders 1
\* and 2, both "created".
InitialOrders == (1 :> MemOrder(1, "created")) @@ (2 :> MemOrder(2, "created"))

\* The in-memory repository as initialised, with no call made on it.
MemIdle ==
    /\ ordersMap = InitialOrders
    /\ lastCall = NoMemCall

\* No stock response is being converted.
StockIdle ==
    /\ stockIn = NoInput
    /\ stockOut = NoInput

\* No key is being routed.
ShardIdle ==
    /\ shardIn = NoInput
    /\ shardOut = NoInput

Init ==
    /\ orders = [i \in 1..MaxID |-> NoRow]
    /\ lineItems = <<>>
    /\ nextID = 1
    /\ events = <<>>
    /\ pc = "idle"
    /\ op = "none"
    /\ order = NoOrder
    /\ result = NoResult
    /\ spawned = 0
    /\ availW = <<>>
    /\ priceW = <<>>
    /\ availabilityCh = <<>>
    /\ pricingCh = <<>>
    /\ availabilityResult = NoAvailability
    /\ examined = 0
    /\ totalPrice = 0
    /\ tx = NoTx
    /\ opsLeft = MaxOps
    /\ RaceIdle /\ MemIdle /\ StockIdle /\ ShardIdle


\* ------------------------------------------------------------ CreateOrder

\* All workers of the previous call have finished.
Quiescent ==
    /\ \A i \in DOMAIN availW : availW[i].done
    /\ \A i \in DOMAIN priceW : priceW[i].done

CanStart == pc \in {"idle", "returned"} /\ Quiescent /\ opsLeft > 0

CreateInputs(n) ==
    {Order(0, h[1], h[2], items) : h \in CreateHeaders, items \in ItemSeqs(n)}

\* CreateOrder is called: the accumulator and the two channels are made.
CreateOrder(input) ==
    /\ CanStart
    /\ nextID <= MaxID
    /\ opsLeft' = opsLeft - 1
    /\ op' = "create"
    /\ order' = input
    /\ result' = NoResult
    /\ totalPrice' = 0
    /\ availabilityCh' = <<>>
    /\ pricingCh' = <<>>
    /\ availabilityResult' = NoAvailability
    /\ spawned' = 0
    /\ examined' = 0
    /\ availW' = [i \in 1..Len(input.ProductRequests) |-> NoCall]
    /\ priceW' = [i \in 1..Len(input.ProductRequests) |-> NoCall]
    /\ pc' = "dispatch"
    /\ UNCHANGED <<db, events, tx>>
    /\ UNCHANGED extra

\* The dispatch loop ends, and the drain loop begins, when every line item
\* has had its two workers launched.
DispatchDoneAfterFirst(launched, n) == launched >= 1

DispatchDone(launched, n) == launched = n

\* One iteration of the dispatch loop: two go statements.
Dispatch ==
    /\ pc = "dispatch"
    /\ spawned < N
    /\ spawned' = spawned + 1
    /\ pc' = IF DispatchDone(spawned + 1, N) THEN "recvAvail" ELSE "dispatch"
    /\ UNCHANGED <<db, events, op, order, result, availW, priceW, availabilityCh,
                   pricingCh, availabilityResult, examined, totalPrice, tx, opsLeft>>
    /\ UNCHANGED extra

\* The capacity both result channels are made with: len(order.ProductRequests).
chanCapOne(o) == 1

chanCap(o) == Len(o.ProductRequests)

\* The line item the workers of iteration i read through their pointer.
workerItemShared(items, i) == items[Len(items)]

workerItem(items, i) == items[i]

\* The stock worker of iteration i: one stock check, one send.
StockWorker(i) ==
    /\ pc # "crashed"
    /\ i \in 1..spawned
    /\ ~availW[i].done
    /\ Len(availabilityCh) < chanCap(order)
    /\ \E resp \in StockResponses :
         LET item == workerItem(order.ProductRequests, i)
             r == checkProductStock(resp, item.Quantity)
         IN  /\ availW' = [availW EXCEPT ![i] =
                    [done |-> TRUE, sent |-> TRUE, ProductID |-> item.ProductID,
                     Quantity |-> item.Quantity, Stock |-> resp.stock,
                     Available |-> r.Available, Error |-> r.Error, FinalPrice |-> 0]]
             /\ availabilityCh' = Append(availabilityCh,
                    [ProductID |-> item.ProductID, Available |-> r.Available,
                     Error |-> r.Error])
    /\ UNCHANGED <<db, events, req, spawned, priceW, pricingCh,
                   availabilityResult, examined, totalPrice, tx, opsLeft>>
    /\ UNCHANGED extra

\* Building the PricingChannel value reads pricing.FinalPrice through the
\* pointer getPricing returned: a nil pointer panics.
pricingPanicsNever(g) == FALSE

pricingPanics(g) == g.isNil

\* The pricing worker of iteration i: one pricing lookup, one send.
PricingWorker(i) ==
    /\ pc # "crashed"
    /\ i \in 1..spawned
    /\ ~priceW[i].done
    /\ Len(pricingCh) < chanCap(order)
    /\ \E resp \in PricingResponses(workerItem(order.ProductRequests, i).ProductID) :
         LET item == workerItem(order.ProductRequests, i)
             g == getPricing(resp)
         IN  IF pricingPanics(g)
             THEN /\ priceW' = [priceW EXCEPT ![i] =
                        [done |-> TRUE, sent |-> FALSE, ProductID |-> item.ProductID,
                         Quantity |-> 0, Stock |-> 0, Available |-> FALSE,
                         Error |-> g.Error, FinalPrice |-> 0]]
                  /\ pc' = "crashed"
                  /\ UNCHANGED pricingCh
             ELSE /\ priceW' = [priceW EXCEPT ![i] =
                        [done |-> TRUE, sent |-> TRUE, ProductID |-> item.ProductID,
                         Quantity |-> 0, Stock |-> 0, Available |-> FALSE,
                         Error |-> g.Error, FinalPrice |-> g.pricing.FinalPrice]]
                  /\ pricingCh' = Append(pricingCh,
                        [ProductID |-> item.ProductID, FinalPrice |-> g.pricing.FinalPrice,
                         MarkUp |-> g.pricing.MarkUp, Discount |-> g.pricing.Discount,
                         Error |-> g.Error])
                  /\ UNCHANGED pc
    /\ UNCHANGED <<db, events, op, order, result, spawned, availW, availabilityCh,
                   availabilityResult, examined, totalPrice, tx, opsLeft>>
    /\ UNCHANGED extra

\* The first receive of a drain iteration: availabilityResult := <-availabilityCh.
RecvAvailability ==
    /\ pc = "recvAvail"
    /\ availabilityCh # <<>>
    /\ availabilityResult' = Head(availabilityCh)
    /\ availabilityCh' = Tail(availabilityCh)
    /\ pc' = "recvPricing"
    /\ UNCHANGED <<db, events, op, order, result, spawned, availW, priceW,
                   pricingCh, examined, totalPrice, tx, opsLeft>>
    /\ UNCHANGED extra

\* The three checks on one paired read, in the order of the code; NoResult
\* when the pair passes.
examinePricingFirst(a, p) ==
    IF p.Error THEN Result("pricingErr", p.ProductID)
    ELSE IF a.Error THEN Result("stockErr", a.ProductID)
    ELSE IF ~a.Available THEN Result("insufficient", a.ProductID)
    ELSE NoResult

examineIgnoringAvailable(a, p) ==
    IF a.Error THEN Result("stockErr", a.ProductID)
    ELSE IF p.Error THEN Result("pricingErr", p.ProductID)
    ELSE NoResult

examine(a, p) ==
    IF a.Error THEN Result("stockErr", a.ProductID)
    ELSE IF ~a.Available THEN Result("insufficient", a.ProductID)
    ELSE IF p.Error THEN Result("pricingErr", p.ProductID)
    ELSE NoResult

\* The inner loop over the line items: what it adds to totalPrice for one
\* pricing result (every line item with the result's product is counted).
RECURSIVE matchTotal(_, _, _)
matchTotal(items, p, j) ==
    IF j > Len(items) THEN 0
    ELSE (IF items[j].ProductID = p.ProductID THEN p.FinalPrice ELSE 0)
         + matchTotal(items, p, j + 1)

\* The inner loop ranges over the line items by value: the quote fields are
\* assigned to the loop's copy, and the order's own line items stay as they
\* were.
enrichedItemsInPlace(items, p) ==
    [j \in 1..Len(items) |->
        IF items[j].ProductID = p.ProductID
        THEN [items[j] EXCEPT !.Discount = p.Discount, !.MarkUp = p.MarkUp,
                              !.FinalPrice = p.FinalPrice]
        ELSE items[j]]

enrichedItems(items, p) == items

\* The drain loop runs once per line item.
drainDoneAfterFirst(count, n) == count >= 1

drainDone(count, n) == count = n

\* The second receive of a drain iteration, the checks and the inner loop.
RecvPricing ==
    /\ pc = "recvPricing"
    /\ pricingCh # <<>>
    /\ LET pricingResult == Head(pricingCh)
           failure == examine(availabilityResult, pricingResult)
       IN  /\ pricingCh' = Tail(pricingCh)
           /\ IF failure # NoResult
              THEN /\ result' = failure
                   /\ pc' = "returned"
                   /\ UNCHANGED <<order, examined, totalPrice>>
              ELSE /\ order' = [order EXCEPT !.ProductRequests =
                                    enrichedItems(order.ProductRequests, pricingResult)]
                   /\ totalPrice' = totalPrice
                                    + matchTotal(order.ProductRequests, pricingResult, 1)
                   /\ examined' = examined + 1
                   /\ pc' = IF drainDone(examined + 1, N) THEN "tx" ELSE "recvAvail"
                   /\ UNCHANGED result
    /\ UNCHANGED <<db, events, op, spawned, availW, priceW, availabilityCh,
                   availabilityResult, tx, opsLeft>>
    /\ UNCHANGED extra

\* mapOrderRequestWithOrderID: the line items stamped with the order's identity.
mapOrderRequestUnstamped(o) == o.ProductRequests

mapOrderRequestWithOrderID(o) ==
    [j \in 1..Len(o.ProductRequests) |->
        [o.ProductRequests[j] EXCEPT !.OrderID = o.ID]]

\* OrderRepository.CreateOrderTx: the header insert; it assigns the identity
\* to the order and leaves every other field as the caller passed it.
CreateOrderTx(o, id) == [order |-> [o EXCEPT !.ID = id], header |-> Row(o)]

\* OrderRepository.CreateOrderRequestTx: the line-item insert.
CreateOrderRequestTx(table, rows) == table \o rows

\* OrderRepository.WithTransaction, on success: the commit makes the header
\* visible.
Commit(table, t) == [table EXCEPT ![t.id] = t.header]

\* The transaction is opened and the header inserted.
TxCreateOrder ==
    /\ pc = "tx"
    /\ \/ /\ tx' = [open |-> TRUE, header |-> CreateOrderTx(order, nextID).header,
                     id |-> nextID]
          /\ order' = CreateOrderTx(order, nextID).order
          /\ nextID' = nextID + 1
          /\ pc' = "txItems"
          /\ UNCHANGED result
       \/ /\ tx' = NoTx
          /\ result' = Result("txErr", 0)
          /\ pc' = "returned"
          /\ UNCHANGED <<order, nextID>>
    /\ UNCHANGED <<orders, lineItems, events, op, enrich, opsLeft>>
    /\ UNCHANGED extra

\* The line items are inserted and the transaction ends: commit when the
\* insert succeeds, roll back when it fails.
TxCreateOrderRequest ==
    /\ pc = "txItems"
    /\ \/ /\ orders' = Commit(orders, tx)
          /\ lineItems' = CreateOrderRequestTx(lineItems, mapOrderRequestWithOrderID(order))
          /\ pc' = "publish"
          /\ UNCHANGED result
       \/ /\ result' = Result("txErr", 0)
          /\ pc' = "returned"
          /\ UNCHANGED <<orders, lineItems>>
    /\ tx' = NoTx
    /\ UNCHANGED <<nextID, events, op, order, enrich, opsLeft>>
    /\ UNCHANGED extra

\* publishOrderCreatedEvent: the message keyed order.<key>.<id>.
publishOrderCreatedEventFixedKey(o, key) == [keyword |-> "created", id |-> o.ID]

publishOrderCreatedEvent(o, key) == [keyword |-> key, id |-> o.ID]

\* The error check after publishOrderCreatedEvent: (nil, error) when the write
\* to the bus failed, (order, nil) when it succeeded.
afterPublishSwallowed(failed, o) == Result("ok", o.ID)

afterPublish(failed, o) ==
    IF failed THEN Result("publishErr", o.ID) ELSE Result("ok", o.ID)

\* The publish step of CreateOrder and the return.
CreatePublish ==
    /\ pc = "publish"
    /\ \/ /\ events' = Append(events, publishOrderCreatedEvent(order, "created"))
          /\ result' = afterPublish(FALSE, order)
       \/ /\ result' = afterPublish(TRUE, order)
          /\ UNCHANGED events
    /\ pc' = "returned"
    /\ UNCHANGED <<db, op, order, enrich, tx, opsLeft>>
    /\ UNCHANGED extra

\* ------------------------------------------------------------- repository

\* orderRepository.GetOrderByID: the row with that identity; found = FALSE is
\* the (nil, nil) returned for gorm.ErrRecordNotFound.
GetOrderByID(table, id) ==
    IF table[id].exists
    THEN [found |-> TRUE, order |-> Order(id, table[id].Status, table[id].TotalPrice, <<>>)]
    ELSE [found |-> FALSE, order |-> NoOrder]

\* orderRepository.UpdateOrder: Save writes every column of the row with the
\* order's identity, and inserts the row when there is none.
SaveKeepingCancelled(table, o) ==
    IF table[o.ID].exists /\ table[o.ID].Status = "cancelled"
    THEN table
    ELSE [table EXCEPT ![o.ID] = Row(o)]

Save(table, o) == [table EXCEPT ![o.ID] = Row(o)]

\* The auto-increment counter after an insert with an explicit identity.
Bump(counter, id) == IF id >= counter THEN id + 1 ELSE counter

\* ------------------------------------------------------------ UpdateOrder

UpdateInputs ==
    {Order(id, "Paid", t, items) :
        id \in 1..MaxID, t \in UpdateTotals, items \in ItemSeqs(MaxItems)}
    \cup {Order(id, st, t, items) :
        id \in 1..MaxID, st \in UpdateStatuses \ {"Paid"}, t \in UpdateTotals,
        items \in ItemSeqs(1)}

\* The status that makes UpdateOrder re-check the stock.
needsStockCheckNever(o) == FALSE

needsStockCheck(o) == o.Status = "Paid"

\* UpdateOrder is called.
UpdateOrder(input) ==
    /\ CanStart
    /\ opsLeft' = opsLeft - 1
    /\ op' = "update"
    /\ order' = input
    /\ result' = NoResult
    /\ pc' = IF needsStockCheck(input) THEN "u_check" ELSE "u_write"
    /\ spawned' = 0
    /\ examined' = 0
    /\ totalPrice' = 0
    /\ availW' = <<>>
    /\ priceW' = <<>>
    /\ availabilityCh' = <<>>
    /\ pricingCh' = <<>>
    /\ availabilityResult' = NoAvailability
    /\ UNCHANGED <<db, events, tx>>
    /\ UNCHANGED extra

\* One iteration of the stock re-check loop of an update to "Paid".
UpdateCheckStock ==
    /\ pc = "u_check"
    /\ \E resp \in StockResponses :
         LET item == order.ProductRequests[examined + 1]
             r == checkProductStock(resp, item.Quantity)
         IN  /\ availW' = Append(availW,
                    [done |-> TRUE, sent |-> FALSE, ProductID |-> item.ProductID,
                     Quantity |-> item.Quantity, Stock |-> resp.stock,
                     Available |-> r.Available, Error |-> r.Error, FinalPrice |-> 0])
             /\ IF r.Error
                THEN /\ result' = Result("stockErr", item.ProductID)
                     /\ pc' = "returned"
                     /\ UNCHANGED examined
                ELSE IF ~r.Available
                THEN /\ result' = Result("insufficient", item.ProductID)
                     /\ pc' = "returned"
                     /\ UNCHANGED examined
                ELSE /\ examined' = examined + 1
                     /\ pc' = IF examined + 1 = N THEN "u_write" ELSE "u_check"
                     /\ UNCHANGED result
    /\ UNCHANGED <<db, events, op, order, spawned, priceW, availabilityCh,
                   pricingCh, availabilityResult, totalPrice, tx, opsLeft>>
    /\ UNCHANGED extra

\* The write of UpdateOrder: the repository returns the order it was given,
\* never nil, so the not-found branch is never taken.
UpdateWrite ==
    /\ pc = "u_write"
    /\ \/ /\ orders' = Save(orders, order)
          /\ nextID' = Bump(nextID, order.ID)
          /\ pc' = "u_publish"
          /\ UNCHANGED result
       \/ /\ result' = Result("updateErr", order.ID)
          /\ pc' = "returned"
          /\ UNCHANGED <<orders, nextID>>
    /\ UNCHANGED <<lineItems, events, op, order, enrich, tx, opsLeft>>
    /\ UNCHANGED extra

\* The publish step of UpdateOrder and the return.
UpdatePublish ==
    /\ pc = "u_publish"
    /\ \/ /\ events' = Append(events, publishOrderCreatedEvent(order, "updated"))
          /\ result' = afterPublish(FALSE, order)
       \/ /\ result' = afterPublish(TRUE, order)
          /\ UNCHANGED events
    /\ pc' = "returned"
    /\ UNCHANGED <<db, op, order, enrich, tx, opsLeft>>
    /\ UNCHANGED extra

\* ------------------------------------------------------------ CancelOrder

\* CancelOrder is called.
CancelOrder(orderId) ==
    /\ CanStart
    /\ opsLeft' = opsLeft - 1
    /\ op' = "cancel"
    /\ order' = Order(orderId, "", 0, <<>>)
    /\ result' = NoResult
    /\ pc' = "c_read"
    /\ spawned' = 0
    /\ examined' = 0
    /\ totalPrice' = 0
    /\ availW' = <<>>
    /\ priceW' = <<>>
    /\ availabilityCh' = <<>>
    /\ pricingCh' = <<>>
    /\ availabilityResult' = NoAvailability
    /\ UNCHANGED <<db, events, tx>>
    /\ UNCHANGED extra

\* What CancelOrder does with the outcome of its read: the pc it goes to.
afterReadIgnoringMissing(read) == "c_write"

afterRead(read) == IF read.found THEN "c_write" ELSE "returned"

\* The read of CancelOrder and the nil check.
CancelRead ==
    /\ pc = "c_read"
    /\ \/ LET read == GetOrderByID(orders, order.ID)
          IN  /\ pc' = afterRead(read)
              /\ IF afterRead(read) = "returned"
                 THEN /\ result' = Result("notFound", order.ID)
                      /\ UNCHANGED order
                 ELSE /\ order' = [read.order EXCEPT !.ID = order.ID]
                      /\ UNCHANGED result
       \/ /\ result' = Result("retrieveErr", order.ID)
          /\ pc' = "returned"
          /\ UNCHANGED order
    /\ UNCHANGED <<db, events, op, enrich, tx, opsLeft>>
    /\ UNCHANGED extra

\* order.Status = "cancelled" and the write through the update path.
CancelWrite ==
    /\ pc = "c_write"
    /\ \/ /\ order' = [order EXCEPT !.Status = "cancelled"]
          /\ orders' = Save(orders, [order EXCEPT !.Status = "cancelled"])
          /\ nextID' = Bump(nextID, order.ID)
          /\ pc' = "c_publish"
          /\ UNCHANGED result
       \/ /\ order' = [order EXCEPT !.Status = "cancelled"]
          /\ result' = Result("cancelErr", order.ID)
          /\ pc' = "returned"
          /\ UNCHANGED <<orders, nextID>>
    /\ UNCHANGED <<lineItems, events, op, enrich, tx, opsLeft>>
    /\ UNCHANGED extra

\* The publish step of CancelOrder and the return.
CancelPublish ==
    /\ pc = "c_publish"
    /\ \/ /\ events' = Append(events, publishOrderCreatedEvent(order, "cancelled"))
          /\ result' = afterPublish(FALSE, order)
       \/ /\ result' = afterPublish(TRUE, order)
          /\ UNCHANGED events
    /\ pc' = "returned"
    /\ UNCHANGED <<db, op, order, enrich, tx, opsLeft>>
    /\ UNCHANGED extra

\* ----------------------------------------------------------- specification

Next ==
    \/ \E input \in CreateInputs(1) : CreateOrder(input)
    \/ Dispatch
    \/ \E i \in 1..MaxItems : StockWorker(i)
    \/ \E i \in 1..MaxItems : PricingWorker(i)
    \/ RecvAvailability
    \/ RecvPricing
    \/ TxCreateOrder
    \/ TxCreateOrderRequest
    \/ CreatePublish
    \/ \E input \in UpdateInputs : UpdateOrder(input)
    \/ UpdateCheckStock
    \/ UpdateWrite
    \/ UpdatePublish
    \/ \E orderId \in 1..MaxID : CancelOrder(orderId)
    \/ CancelRead
    \/ CancelWrite
    \/ CancelPublish

\* Sequences of up to MaxOps calls; the orders created have one line item.
Spec == Init /\ [][Next]_vars

\* One CreateOrder call on an order of up to MaxItems line items.
InitCreate ==
    /\ orders = [i \in 1..MaxID |-> NoRow]
    /\ lineItems = <<>>
    /\ nextID = 1
    /\ events = <<>>
    /\ pc = "idle"
    /\ op = "none"
    /\ order = NoOrder
    /\ result = NoResult
    /\ spawned = 0
    /\ availW = <<>>
    /\ priceW = <<>>
    /\ availabilityCh = <<>>
    /\ pricingCh = <<>>
    /\ availabilityResult = NoAvailability
    /\ examined = 0
    /\ totalPrice = 0
    /\ tx = NoTx
    /\ opsLeft = 1
    /\ RaceIdle /\ MemIdle /\ StockIdle /\ ShardIdle

NextCreate ==
    \/ \E input \in CreateInputs(MaxItems) : CreateOrder(input)
    \/ Dispatch
    \/ \E i \in 1..MaxItems : StockWorker(i)
    \/ \E i \in 1..MaxItems : PricingWorker(i)
    \/ RecvAvailability
    \/ RecvPricing
    \/ TxCreateOrder
    \/ TxCreateOrderRequest
    \/ CreatePublish

SpecCreate == InitCreate /\ [][NextCreate]_vars

\* One CreateOrder call in which every gateway call returns, the store and
\* the bus answer, and the orchestrator and every launched worker are
\* scheduled: each step that stays enabled is eventually taken.
FairCreate ==
    /\ WF_vars(Dispatch)
    /\ \A i \in 1..MaxItems : WF_vars(StockWorker(i)) /\ WF_vars(PricingWorker(i))
    /\ WF_vars(RecvAvailability)
    /\ WF_vars(RecvPricing)
    /\ WF_vars(TxCreateOrder)
    /\ WF_vars(TxCreateOrderRequest)
    /\ WF_vars(CreatePublish)

SpecCreateFair == InitCreate /\ [][NextCreate]_vars /\ FairCreate

\* ------------------------------------------------------ concurrent requests

\* The variables of the parts that take no part in the concurrent requests.
aside == <<ordersMap, lastCall, stockIn, stockOut, shardIn, shardOut>>

\* A second request, served by its own goroutine: CancelOrder is called.
ConcurrentCancelOrder(orderId) ==
    /\ pc2 = "idle"
    /\ pc2' = "c_read"
    /\ order2' = Order(orderId, "", 0, <<>>)
    /\ result2' = NoResult
    /\ UNCHANGED <<db, events, req, enrich, tx, opsLeft, aside>>

\* The read of the concurrent CancelOrder and the nil check.
ConcurrentCancelRead ==
    /\ pc2 = "c_read"
    /\ \/ LET read == GetOrderByID(orders, order2.ID)
          IN  /\ pc2' = afterRead(read)
              /\ IF afterRead(read) = "returned"
                 THEN /\ result2' = Result("notFound", order2.ID)
                      /\ UNCHANGED order2
                 ELSE /\ order2' = [read.order EXCEPT !.ID = order2.ID]
                      /\ UNCHANGED result2
       \/ /\ result2' = Result("retrieveErr", order2.ID)
          /\ pc2' = "returned"
          /\ UNCHANGED order2
    /\ UNCHANGED <<db, events, req, enrich, tx, opsLeft, aside>>

\* order.Status = "cancelled" and the write of the order that was read.
ConcurrentCancelWrite ==
    /\ pc2 = "c_write"
    /\ order2' = [order2 EXCEPT !.Status = "cancelled"]
    /\ \/ /\ orders' = Save(orders, [order2 EXCEPT !.Status = "cancelled"])
          /\ nextID' = Bump(nextID, order2.ID)
          /\ pc2' = "c_publish"
          /\ UNCHANGED result2
       \/ /\ result2' = Result("cancelErr", order2.ID)
          /\ pc2' = "returned"
          /\ UNCHANGED <<orders, nextID>>
    /\ UNCHANGED <<lineItems, events, req, enrich, tx, opsLeft, aside>>

\* The publish step of the concurrent CancelOrder and the return.
ConcurrentCancelPublish ==
    /\ pc2 = "c_publish"
    /\ \/ /\ events' = Append(events, publishOrderCreatedEvent(order2, "cancelled"))
          /\ result2' = afterPublish(FALSE, order2)
       \/ /\ result2' = afterPublish(TRUE, order2)
          /\ UNCHANGED events
    /\ pc2' = "returned"
    /\ UNCHANGED <<db, req, enrich, tx, opsLeft, order2, aside>>

\* The store after an earlier CreateOrder of a one-item order has returned
\* success: the order's row, its line item and its event; no request is in
\* flight.
InitRace ==
    /\ \E input \in CreateInputs(1) :
         LET created == CreateOrderTx(input, 1)
         IN  /\ orders = Commit([i \in 1..MaxID |-> NoRow],
                                [open |-> TRUE, header |-> created.header, id |-> 1])
             /\ lineItems = mapOrderRequestWithOrderID(created.order)
    /\ nextID = 2
    /\ events = <<publishOrderCreatedEvent(Order(1, "", 0, <<>>), "created")>>
    /\ pc = "idle"
    /\ op = "none"
    /\ order = NoOrder
    /\ result = NoResult
    /\ spawned = 0
    /\ availW = <<>>
    /\ priceW = <<>>
    /\ availabilityCh = <<>>
    /\ pricingCh = <<>>
    /\ availabilityResult = NoAvailability
    /\ examined = 0
    /\ totalPrice = 0
    /\ tx = NoTx
    /\ opsLeft = 1
    /\ RaceIdle /\ MemIdle /\ StockIdle /\ ShardIdle

NextRace ==
    \/ \E input \in UpdateInputs : UpdateOrder(input)
    \/ UpdateCheckStock
    \/ UpdateWrite
    \/ UpdatePublish
    \/ \E orderId \in 1..MaxID : ConcurrentCancelOrder(orderId)
    \/ ConcurrentCancelRead
    \/ ConcurrentCancelWrite
    \/ ConcurrentCancelPublish

\* One UpdateOrder and one CancelOrder on the same existing order, served
\* concurrently: their steps interleave in every order.
SpecRace == InitRace /\ [][NextRace]_vars

\* ------------------------------------------------- the stock gateway client

\* The order service with no request in flight and an empty store.
ServiceIdle ==
    /\ orders = [i \in 1..MaxID |-> NoRow]
    /\ lineItems = <<>>
    /\ nextID = 1
    /\ events = <<>>
    /\ pc = "idle"
    /\ op = "none"
    /\ order = NoOrder
    /\ result = NoResult
    /\ spawned = 0
    /\ availW = <<>>
    /\ priceW = <<>>
    /\ availabilityCh = <<>>
    /\ pricingCh = <<>>
    /\ availabilityResult = NoAvailability
    /\ examined = 0
    /\ totalPrice = 0
    /\ tx = NoTx
    /\ opsLeft = 0

\* HTTP responses of the stock gateway with every stock level up to MaxStock.
StockProbes ==
    {[kind |-> k, stock |-> 0] : k \in {"transport", "status", "decode", "nofield"}}
    \cup {[kind |-> "ok", stock |-> s] : s \in 0..MaxStock}

InitStock ==
    /\ ServiceIdle
    /\ stockIn \in {[set |-> TRUE, resp |-> r, quantity |-> q] :
                        r \in StockProbes, q \in 1..MaxQuantity}
    /\ stockOut = NoInput
    /\ RaceIdle /\ MemIdle /\ ShardIdle

\* checkProductStock is called with the response and the quantity.
CallCheckProductStock ==
    /\ stockIn.set
    /\ ~stockOut.set
    /\ stockOut' = [set |-> TRUE,
                    Available |-> checkProductStock(stockIn.resp, stockIn.quantity).Available,
                    Error |-> checkProductStock(stockIn.resp, stockIn.quantity).Error]
    /\ UNCHANGED <<db, events, req, enrich, tx, opsLeft, pc2, order2, result2,
                   ordersMap, lastCall, stockIn, shardIn, shardOut>>

NextStock == CallCheckProductStock

\* One call of checkProductStock on any response and quantity.
SpecStock == InitStock /\ [][NextStock]_vars

\* ------------------------------------------------ the in-memory repository

\* Statuses of the orders handed to the in-memory repository.
MemStatuses == {"new", "updated"}

\* The map with key id set to order o: orders[id] = o.
Put(m, id, o) == [k \in DOMAIN m \cup {id} |-> IF k = id THEN o ELSE m[k]]

\* In-memory orderRepository.CreateOrder: the identity is len(orders) + 1.
RepoCreateOrder(status) ==
    /\ lastCall.seq < MaxCalls
    /\ Cardinality(DOMAIN ordersMap) + 1 <= MaxMemID
    /\ LET id == Cardinality(DOMAIN ordersMap) + 1
       IN  /\ ordersMap' = Put(ordersMap, id, MemOrder(id, status))
           /\ lastCall' = [op |-> "create", id |-> id, seq |-> lastCall.seq + 1]
    /\ UNCHANGED <<db, events, req, enrich, tx, opsLeft, pc2, order2, result2,
                   stockIn, stockOut, shardIn, shardOut>>

\* In-memory orderRepository.UpdateOrder: orders[order.ID] = order.
RepoUpdateOrder(id, status) ==
    /\ lastCall.seq < MaxCalls
    /\ ordersMap' = Put(ordersMap, id, MemOrder(id, status))
    /\ lastCall' = [op |-> "update", id |-> id, seq |-> lastCall.seq + 1]
    /\ UNCHANGED <<db, events, req, enrich, tx, opsLeft, pc2, order2, result2,
                   stockIn, stockOut, shardIn, shardOut>>

\* In-memory orderRepository.DeleteOrder: delete(orders, id) when the key is
\* there, nothing otherwise.
RepoDeleteOrder(id) ==
    /\ lastCall.seq < MaxCalls
    /\ ordersMap' = [k \in DOMAIN ordersMap \ {id} |-> ordersMap[k]]
    /\ lastCall' = [op |-> "delete", id |-> id, seq |-> lastCall.seq + 1]
    /\ UNCHANGED <<db, events, req, enrich, tx, opsLeft, pc2, order2, result2,
                   stockIn, stockOut, shardIn, shardOut>>

InitMem ==
    /\ ServiceIdle
    /\ MemIdle
    /\ RaceIdle /\ StockIdle /\ ShardIdle

NextMem ==
    \/ \E status \in MemStatuses : RepoCreateOrder(status)
    \/ \E id \in 1..MaxMemID, status \in MemStatuses : RepoUpdateOrder(id, status)
    \/ \E id \in 1..MaxMemID : RepoDeleteOrder(id)

\* Sequences of up to MaxCalls calls on the in-memory repository.
SpecMem == InitMem /\ [][NextMem]_vars

\* ------------------------------------------------------------ the sharding

\* NewShardRouter: a router over numShard partitions.
NewShardRouter(numShard) == [NumShards |-> numShard]

\* Go's % on integers truncates toward zero: the remainder takes the sign of
\* the dividend.
Rem(a, b) == IF a >= 0 THEN a % b ELSE -((-a) % b)

\* ShardRouter.GetShard: int(key % int64(sr.NumShards)).
GetShard(sr, key) == Rem(key, sr.NumShards)

InitShard ==
    /\ ServiceIdle
    /\ shardIn \in {[set |-> TRUE, sr |-> NewShardRouter(n), key |-> k] :
                        n \in 1..MaxShards, k \in (-MaxKey)..MaxKey}
    /\ shardOut = NoInput
    /\ RaceIdle /\ MemIdle /\ StockIdle

\* GetShard is called on the router with the key.
CallGetShard ==
    /\ shardIn.set
    /\ ~shardOut.set
    /\ shardOut' = [set |-> TRUE, shard |-> GetShard(shardIn.sr, shardIn.key)]
    /\ UNCHANGED <<db, events, req, enrich, tx, opsLeft, pc2, order2, result2,
                   ordersMap, lastCall, stockIn, stockOut, shardIn>>

NextShard == CallGetShard

\* One call of GetShard on any router and key.
SpecShard == InitShard /\ [][NextShard]_vars

\* ------------------------------------------------------------------ claims

\* The store holds no order and no line item.
StoreEmpty ==
    /\ \A id \in 1..MaxID : ~orders[id].exists
    /\ lineItems = <<>>

\* The stock check of line item i came back without error and unavailable.
StockInsufficient(i) ==
    availW[i].done /\ ~availW[i].Error /\ ~availW[i].Available

\* Every stock check and every pricing lookup of the call succeeded, and every
\* paired read has been examined.
EnrichmentSucceeded ==
    /\ spawned = N
    /\ examined = N
    /\ \A i \in 1..N :
         /\ availW[i].done /\ availW[i].Available /\ ~availW[i].Error
         /\ priceW[i].done /\ priceW[i].sent /\ ~priceW[i].Error

\* The sum of the final prices of the persisted line items of order id.
RECURSIVE PersistedSum(_, _, _)
PersistedSum(rows, id, j) ==
    IF j > Len(rows) THEN 0
    ELSE (IF rows[j].OrderID = id THEN rows[j].FinalPrice ELSE 0)
         + PersistedSum(rows, id, j + 1)

PersistedCount(rows, id) == Cardinality({j \in 1..Len(rows) : rows[j].OrderID = id})

\* C1: in a CreateOrder call where some stock check reported "not available"
\* and no stock check reported an error, nothing is persisted, nothing is
\* published, the call never reaches the persistence or publish stage, and
\* when the call has returned it has returned "insufficient stock for product
\* ID p" for a product p whose stock check reported "not available".
C1_InsufficientStockRejected ==
    (/\ op = "create"
     /\ \E i \in DOMAIN availW : StockInsufficient(i)
     /\ \A i \in DOMAIN availW : ~(availW[i].done /\ availW[i].Error))
    => /\ StoreEmpty
       /\ ~tx.open
       /\ events = <<>>
       /\ pc \notin {"tx", "txItems", "publish"}
       /\ pc = "returned" =>
            /\ result.kind = "insufficient"
            /\ \E i \in DOMAIN availW :
                 StockInsufficient(i) /\ availW[i].ProductID = result.id

\* A two-item order whose first item is in stock and whose second is not has
\* been rejected with the second item's product.
C1_Witness ==
    /\ op = "create"
    /\ N = 2
    /\ pc = "returned"
    /\ availW[1].done /\ availW[1].Available
    /\ StockInsufficient(2)
    /\ priceW[1].sent /\ priceW[2].sent
    /\ result = Result("insufficient", availW[2].ProductID)

\* C2: the transaction is open, or anything of the call is persisted or
\* published, only when all N paired reads have been examined and none
\* failed; the publish step is reached, and an event exists, only when the
\* header and the N line items are committed; a call that returned an
\* enrichment error has persisted and published nothing, and a call that
\* returned a persistence error has persisted and published nothing.
C2_StagesInOrder ==
    op = "create" =>
      /\ (pc \in {"tx", "txItems", "publish"} \/ tx.open \/ ~StoreEmpty \/ events # <<>>)
            => EnrichmentSucceeded
      /\ (pc = "publish" \/ events # <<>>)
            => /\ ~tx.open
               /\ order.ID \in 1..MaxID
               /\ orders[order.ID].exists
               /\ PersistedCount(lineItems, order.ID) = N
      /\ result.kind \in {"stockErr", "insufficient", "pricingErr", "txErr"}
            => StoreEmpty /\ events = <<>> /\ ~tx.open

\* A two-item order has gone through enrichment, commit and publish.
C2_Witness ==
    /\ op = "create"
    /\ N = 2
    /\ pc = "returned"
    /\ result.kind = "ok"
    /\ Len(events) = 1
    /\ orders[order.ID].exists

\* C3: the total price of every persisted order equals the sum of the final
\* prices of its persisted line items.
C3_TotalIsSumOfFinalPrices ==
    \A id \in 1..MaxID :
        orders[id].exists => orders[id].TotalPrice = PersistedSum(lineItems, id, 1)

\* The scenario of C4: line items (product 10, quantity 2) and (product 20,
\* quantity 1), stock 5 and 1, quotes with final price 50 and 30, and the
\* create has returned the order.
C4_Scenario ==
    /\ op = "create"
    /\ N = 2
    /\ pc = "returned"
    /\ result.kind = "ok"
    /\ availW[1].ProductID = 10 /\ availW[1].Quantity = 2 /\ availW[1].Stock = 5
    /\ availW[2].ProductID = 20 /\ availW[2].Quantity = 1 /\ availW[2].Stock = 1
    /\ priceW[1].ProductID = 10 /\ priceW[1].FinalPrice = 50
    /\ priceW[2].ProductID = 20 /\ priceW[2].FinalPrice = 30

\* C4: in the scenario the persisted order's total price is 130.
C4_ScenarioTotal130 ==
    C4_Scenario => orders[order.ID].TotalPrice = 130

\* C5: every persisted order created by CreateOrder has status "created".
C5_PersistedStatusCreated ==
    \A id \in 1..MaxID : orders[id].exists => orders[id].Status = "created"

\* C6: a pricing worker whose lookup failed has completed by sending a result
\* that carries the error, the process is running, and a call that returned
\* the pricing error names the product of a failed lookup and has persisted
\* and published nothing.
C6_PricingFailureReported ==
    op = "create" =>
      /\ \A i \in DOMAIN priceW :
           (priceW[i].done /\ priceW[i].Error) => priceW[i].sent
      /\ pc # "crashed"
      /\ result.kind = "pricingErr" =>
           /\ StoreEmpty /\ events = <<>>
           /\ \E i \in DOMAIN priceW :
                priceW[i].Error /\ priceW[i].ProductID = result.id

\* Every line item's stock check and pricing lookup has been issued.
AllIssued == \A i \in 1..N : availW[i].done /\ priceW[i].done

\* C10 (state part): every stock check of a CreateOrder call was issued with
\* the product and quantity of its own line item and every pricing lookup
\* with the product of its own line item, at most one of each per line item,
\* and no result is received before all 2N workers have been launched.
C10_Issued ==
    op = "create" =>
      /\ Len(availW) = N /\ Len(priceW) = N
      /\ \A i \in 1..N :
           /\ availW[i].done =>
                /\ i <= spawned
                /\ availW[i].ProductID = order.ProductRequests[i].ProductID
                /\ availW[i].Quantity = order.ProductRequests[i].Quantity
           /\ priceW[i].done =>
                /\ i <= spawned
                /\ priceW[i].ProductID = order.ProductRequests[i].ProductID
      /\ pc \in {"recvAvail", "recvPricing", "tx", "txItems", "publish", "returned"}
            => spawned = N

\* C10: the state part holds always, and in every CreateOrder call all N
\* stock checks and all N pricing lookups are eventually issued, whether the
\* call succeeds, returns early or never returns.
C10_OneCallPerItem ==
    /\ []C10_Issued
    /\ (op = "create") ~> (op = "create" /\ AllIssued)

\* C7: an order whose persisted status is "cancelled" keeps the status
\* "cancelled" in every step.
C7_CancelledIsTerminal ==
    [][\A id \in 1..MaxID :
          (orders[id].exists /\ orders[id].Status = "cancelled")
              => (orders'[id].exists /\ orders'[id].Status = "cancelled")]_vars

\* C8: when CancelOrder reads an identity that has no row, the call returns
\* with that step, the error it returns is "order with ID <id> not found" for
\* that identity unless the read itself failed, and the step writes nothing to
\* the store and publishes nothing.
C8_CancelMissingOrder ==
    [][(op = "cancel" /\ pc = "c_read" /\ ~orders[order.ID].exists)
          => /\ pc' = "returned"
             /\ result' \in {Result("notFound", order.ID), Result("retrieveErr", order.ID)}
             /\ orders' = orders
             /\ lineItems' = lineItems
             /\ nextID' = nextID
             /\ events' = events]_vars

\* CancelOrder on identity 1, which has no row, has returned not-found as the
\* second call or later, with the store and the bus still empty.
C8_Witness ==
    /\ op = "cancel"
    /\ pc = "returned"
    /\ result = Result("notFound", 1)
    /\ ~orders[1].exists
    /\ events = <<>>
    /\ opsLeft <= MaxOps - 2

\* The stock checks an update to "Paid" has made so far all passed.
AllChecksPassed ==
    \A i \in DOMAIN availW : availW[i].Available /\ ~availW[i].Error

\* C9 (state part): an UpdateOrder to "Paid" makes no pricing lookup; its
\* stock checks are made for the order's line items in order; it reaches the
\* write only after all N checks passed; and once a check has failed the call
\* has returned the stock error or the insufficient-stock error for that
\* line item's product.
C9_Checked ==
    (op = "update" /\ order.Status = "Paid") =>
      /\ priceW = <<>>
      /\ Len(availW) <= N
      /\ \A i \in DOMAIN availW :
           /\ availW[i].ProductID = order.ProductRequests[i].ProductID
           /\ availW[i].Quantity = order.ProductRequests[i].Quantity
      /\ (pc \in {"u_write", "u_publish"}
            \/ result.kind \in {"ok", "publishErr", "updateErr"})
            => (Len(availW) = N /\ AllChecksPassed)
      /\ ~AllChecksPassed =>
            /\ pc = "returned"
            /\ result.kind = (IF availW[Len(availW)].Error THEN "stockErr" ELSE "insufficient")
            /\ result.id = availW[Len(availW)].ProductID

\* C9: the state part holds always, and every step of an UpdateOrder to
\* "Paid" that changes the store or the bus is taken after all N stock checks
\* passed.
C9_PaidUpdateRechecksStock ==
    /\ []C9_Checked
    /\ [][(/\ op = "update"
           /\ order.Status = "Paid"
           /\ (orders' # orders \/ lineItems' # lineItems \/ events' # events))
             => (Len(availW) = N /\ AllChecksPassed)]_vars

\* An update to "Paid" of an existing order with two line items was rejected
\* on its second item, and the order's row still has its old status.
C9_Witness ==
    /\ op = "update"
    /\ order.Status = "Paid"
    /\ N = 2
    /\ pc = "returned"
    /\ Len(availW) = 2
    /\ availW[1].Available
    /\ ~availW[2].Available /\ ~availW[2].Error
    /\ result = Result("insufficient", order.ProductRequests[2].ProductID)
    /\ orders[order.ID].exists
    /\ orders[order.ID].Status = "updated"
    /\ Len(events) = 1

\* C11: during and after a CreateOrder call the store shows either the order's
\* header together with all N of its line items, each stamped with the
\* header's identity, or neither the header nor any line item; and a call
\* whose header insert or line-item insert failed has returned the
\* persistence error with the store empty as before the call and nothing
\* published.
C11_AtomicPersistence ==
    op = "create" =>
      /\ \A j \in 1..Len(lineItems) :
           /\ lineItems[j].OrderID \in 1..MaxID
           /\ orders[lineItems[j].OrderID].exists
      /\ \A id \in 1..MaxID :
           orders[id].exists =>
             /\ id = order.ID
             /\ PersistedCount(lineItems, id) = N
             /\ Len(lineItems) = N
      /\ result.kind = "txErr" =>
           /\ pc = "returned"
           /\ StoreEmpty
           /\ events = <<>>

\* A two-item order passed enrichment, its header insert succeeded and drew
\* identity 1, its line-item insert failed, and the call returned the
\* persistence error with nothing visible in the store.
C11_Witness ==
    /\ op = "create"
    /\ N = 2
    /\ EnrichmentSucceeded
    /\ pc = "returned"
    /\ result.kind = "txErr"
    /\ order.ID = 1
    /\ nextID = 2
    /\ StoreEmpty

\* The publish steps of the three operations.
PublishSteps == {"publish", "u_publish", "c_publish"}

\* C12 (state part): a call that returned the publish error has left what it
\* wrote in the store: the row of its order holds the status and total the
\* call wrote, and a created order has its N line items.
C12_Persisted ==
    (pc = "returned" /\ result.kind = "publishErr") =>
      /\ order.ID \in 1..MaxID
      /\ orders[order.ID] = Row(order)
      /\ op = "create" => PersistedCount(lineItems, order.ID) = N

\* C12: for CreateOrder, UpdateOrder and CancelOrder alike, a publish step
\* that puts no message on the bus returns the publish error for the order
\* and leaves the store as the call's write left it; the state part holds
\* always; and once a call has returned, nothing is written to the store or
\* the bus until the next call (no rollback, no compensating write, no
\* second emission).
C12_PublishFailureKeepsWrite ==
    /\ []C12_Persisted
    /\ [][(pc \in PublishSteps /\ pc' # pc /\ events' = events)
             => /\ pc' = "returned"
                /\ result' = Result("publishErr", order.ID)
                /\ orders' = orders
                /\ lineItems' = lineItems]_vars
    /\ [][pc = "returned"
             => (events' = events /\ orders' = orders /\ lineItems' = lineItems)]_vars

\* CancelOrder wrote "cancelled" to the row of order 1, failed to publish and
\* returned the publish error; the bus holds only the event of the earlier
\* update.
C12_Witness ==
    /\ op = "cancel"
    /\ pc = "returned"
    /\ result = Result("publishErr", 1)
    /\ orders[1].exists
    /\ orders[1].Status = "cancelled"
    /\ Len(events) = 1
    /\ events[1].keyword = "updated"

\* The transition keyword of each operation.
KeywordOf(operation) ==
    CASE operation = "create" -> "created"
      [] operation = "update" -> "updated"
      [] operation = "cancel" -> "cancelled"
      [] OTHER -> "none"

\* C13: the bus changes only in the step in which a call returns success, and
\* then by exactly one message, keyed with the operation's keyword and the
\* identity of the order whose row the call has written; and a call returns
\* success exactly when its returning step emits that message, so a call that
\* returns an error from enrichment, the stock re-check, the read or the
\* write has emitted nothing.
C13_OneEventPerSuccess ==
    /\ [][events' # events
             => /\ events' = Append(events, [keyword |-> KeywordOf(op), id |-> order.ID])
                /\ pc # "returned"
                /\ pc' = "returned"
                /\ result' = Result("ok", order.ID)
                /\ order.ID \in 1..MaxID
                /\ orders[order.ID] = Row(order)]_vars
    /\ [][(pc # "returned" /\ pc' = "returned")
             => (result'.kind = "ok" <=> events' # events)]_vars

\* An update and then a cancel of order 1 both returned success: the bus
\* holds order.updated.1 followed by order.cancelled.1.
C13_Witness ==
    /\ op = "cancel"
    /\ pc = "returned"
    /\ result = Result("ok", 1)
    /\ events = <<[keyword |-> "updated", id |-> 1], [keyword |-> "cancelled", id |-> 1]>>

\* C14: when UpdateOrder reaches its write for an identity that has no row,
\* the call returns with that step, the error it returns is "order with ID
\* <id> not found" unless the write itself failed, no row is created and
\* nothing is published.
C14_UpdateMissingOrder ==
    [][(op = "update" /\ pc = "u_write" /\ ~orders[order.ID].exists)
          => /\ pc' = "returned"
             /\ result' \in {Result("notFound", order.ID), Result("updateErr", order.ID)}
             /\ orders' = orders
             /\ events' = events]_vars

\* C15: when CreateOrder hands the order to the writer, and from then on,
\* every line item carries the final price of the quote that the pricing
\* lookup for that line item's product returned, whatever the arrival order
\* of the worker results was and also when line items share a product.
C15_ItemsCarryQuote ==
    (op = "create" /\ pc \in {"tx", "txItems", "publish"}) =>
      \A j \in 1..N :
        /\ priceW[j].ProductID = order.ProductRequests[j].ProductID
        /\ order.ProductRequests[j].FinalPrice = priceW[j].FinalPrice

\* What the priority of C16 yields for the single pair of a one-item order,
\* from the outcomes of its two lookups; NoResult when the pair passes.
C16_Expected ==
    IF availW[1].Error THEN Result("stockErr", availW[1].ProductID)
    ELSE IF ~availW[1].Available THEN Result("insufficient", availW[1].ProductID)
    ELSE IF priceW[1].Error THEN Result("pricingErr", priceW[1].ProductID)
    ELSE NoResult

\* C16, for an order of one line item: once both lookups have completed,
\* both results have been sent, so that the pair is read, whether or not the
\* pricing lookup failed; and a call that has returned after a failed lookup
\* has returned the error the priority selects: the stock error first, then
\* insufficient stock, and the pricing error only otherwise.
C16_PairPriority ==
    (op = "create" /\ N = 1 /\ availW[1].done /\ priceW[1].done) =>
      /\ availW[1].sent /\ priceW[1].sent
      /\ (pc = "returned" /\ C16_Expected # NoResult) => result = C16_Expected

\* C17: an orchestrator that has received a failed stock check (an error or
\* "not available") and has not returned yet is not waiting for a pricing
\* lookup: its next step, which examines the pair and returns the failure, is
\* enabled without any further step of a pricing worker.
C17_StockFailureNotHeldUp ==
    (/\ op = "create"
     /\ pc = "recvPricing"
     /\ (availabilityResult.Error \/ ~availabilityResult.Available))
    => pricingCh # <<>>

\* C18: in a CreateOrder call neither channel ever holds more than its
\* capacity of N values or more values than workers have sent; a launched
\* worker that has not sent yet always finds room in its channel, also after
\* the orchestrator has returned; and every worker that has finished, stock
\* or pricing, whatever its lookup returned, has finished by sending its
\* result.
C18_SendsNeverBlock ==
    op = "create" =>
      /\ Len(availabilityCh) <= chanCap(order)
      /\ Len(pricingCh) <= chanCap(order)
      /\ Len(availabilityCh) <= Cardinality({i \in 1..N : availW[i].sent})
      /\ Len(pricingCh) <= Cardinality({i \in 1..N : priceW[i].sent})
      /\ \A i \in 1..spawned :
           /\ ~availW[i].done => Len(availabilityCh) < chanCap(order)
           /\ ~priceW[i].done => Len(pricingCh) < chanCap(order)
           /\ availW[i].done => availW[i].sent
           /\ priceW[i].done => priceW[i].sent

\* Receives the orchestrator has performed on the availability channel and
\* on the pricing channel.
AvailabilityReceives == Cardinality({i \in 1..N : availW[i].sent}) - Len(availabilityCh)
PricingReceives == Cardinality({i \in 1..N : priceW[i].sent}) - Len(pricingCh)

\* C19: with every gateway call returning and fair scheduling, a CreateOrder
\* call performs at most N receives on each channel and eventually returns,
\* with an error or with the created order.
C19_CreateReturns ==
    /\ [](op = "create" => (AvailabilityReceives <= N /\ PricingReceives <= N))
    /\ (op = "create") ~> (pc = "returned")

\* The sum over the line items of the final price quoted for the item's
\* product, each line item counted once.
RECURSIVE QuotedSum(_, _)
QuotedSum(calls, j) ==
    IF j > Len(calls) THEN 0 ELSE calls[j].FinalPrice + QuotedSum(calls, j + 1)

\* C20: when all N pairs of a CreateOrder call have been examined without
\* failure, the accumulated total equals the sum over the line items of the
\* final price quoted for the item's product, each line item counted once,
\* for every arrival order of the results and also when two line items have
\* the same product.
C20_TotalCountsEachItemOnce ==
    (op = "create" /\ EnrichmentSucceeded) => totalPrice = QuotedSum(priceW, 1)

\* C21: the write of a CancelOrder that runs concurrently with an UpdateOrder
\* on the same order changes only the status: the total price that is
\* persisted just before the write, which an UpdateOrder may have committed
\* after CancelOrder's read, is still the persisted total after it.
C21_CancelWritesOnlyStatus ==
    [][(pc2 = "c_write" /\ pc2' = "c_publish")
          => /\ orders'[order2.ID].Status = "cancelled"
             /\ orders'[order2.ID].TotalPrice = orders[order2.ID].TotalPrice]_vars

\* C22: once a concurrent UpdateOrder and CancelOrder on the same order have
\* both returned success, the keyword of the last published event matches the
\* persisted status: the last event is "cancelled" exactly when the
\* persisted status is "cancelled".
C22_LastEventMatchesStatus ==
    (/\ pc = "returned" /\ result.kind = "ok" /\ op = "update"
     /\ pc2 = "returned" /\ result2.kind = "ok"
     /\ order.ID = order2.ID)
    => (events[Len(events)].keyword = "cancelled"
          <=> orders[order.ID].Status = "cancelled")

\* C23: checkProductStock reports no error and "available" exactly when the
\* returned stock is at least the requested quantity (equal counts as
\* available) on a 200 response that decodes and has the "stock" field, and
\* reports an error and "not available" on a transport failure, a non-200
\* status, a decode failure and a response without the field.
C23_AvailableIffStockCovers ==
    stockOut.set =>
      IF stockIn.resp.kind = "ok"
      THEN /\ ~stockOut.Error
           /\ stockOut.Available <=> (stockIn.resp.stock >= stockIn.quantity)
      ELSE /\ stockIn.resp.kind \in {"transport", "status", "decode", "nofield"}
           /\ stockOut.Error
           /\ ~stockOut.Available

\* The boundary: a stock of 3 for a requested quantity of 3 was reported
\* available.
C23_Witness ==
    /\ stockOut.set
    /\ stockIn.resp.kind = "ok"
    /\ stockIn.resp.stock = 3
    /\ stockIn.quantity = 3
    /\ stockOut.Available
    /\ ~stockOut.Error

\* C24: every CreateOrder call on the in-memory repository assigns an
\* identity that is not a key of the map at the time of the call, so the
\* call overwrites no stored order.
C24_CreateAssignsFreshIdentity ==
    [][(lastCall'.seq # lastCall.seq /\ lastCall'.op = "create")
          => lastCall'.id \notin DOMAIN ordersMap]_vars

\* C25: for a router with NumShards >= 1 and every key, negative keys
\* included, GetShard returns an index in 0 .. NumShards-1, and the index is
\* the one that the key's residue modulo NumShards determines (so equal keys
\* get equal indexes).
C25_ShardInRange ==
    shardOut.set =>
      /\ shardOut.shard \in 0..(shardIn.sr.NumShards - 1)
      /\ shardOut.shard = shardIn.key % shardIn.sr.NumShards

=============================================================================
